---- MODULE Spec2Model ----
(***************************************************************************)
(* Model of the HackRx RAG service: the /hackrx/run endpoint               *)
(* (routers/hackrx.py), the bearer-token dependency (utils/security.py),   *)
(* the orchestrator process_query (services/query_engine.py) with its      *)
(* module-level document_cache, the per-question coroutine                 *)
(* get_answer_with_optimizations, the answer generator (utils/llm.py), the *)
(* validator (utils/answer_validator.py) and the indexer's chunk_cache     *)
(* (utils/embedding.py).                                                   *)
(*                                                                         *)
(* One event loop runs every coroutine; an action is the code a coroutine  *)
(* executes between two suspension points (awaits).  External calls        *)
(* (download, Pinecone, OpenAI) return a nondeterministically chosen       *)
(* outcome.                                                                *)
(***************************************************************************)
EXTENDS Integers, Sequences, FiniteSets, TLC

(* ------------------------------ bounds --------------------------------- *)
\* number of request slots
MaxRequests == 1
\* number of request slots when requests overlap
MaxOverlappingRequests == 2
\* largest number of questions in one request
MaxQuestions == 4
\* largest total number of questions over the requests open at the same
\* time, a request without questions counting for one (a request is always
\* admitted when no other is open)
MaxConcurrentQuestions == 1
\* the same, and the largest number of questions in one request, when
\* requests overlap
MaxOverlappingQuestions == 2
MaxQuestionsOverlap == 1
\* number of times the clock advances
MaxTicks == 1
\* largest number of questions in one request when the clock runs
MaxQuestionsTTL == 1

\* every slot; a run uses the first MaxRequests or MaxOverlappingRequests
Slots(n) == 1..n
Reqs == Slots(IF MaxRequests > MaxOverlappingRequests
             THEN MaxRequests ELSE MaxOverlappingRequests)

\* document URLs a request can carry; "not-a-url" fails HttpUrl validation
GoodURLs == {"http://h/a.pdf", "http://h/b.pdf"}
BadURLs == {"not-a-url"}
URLs == GoodURLs \cup BadURLs

(* -------------------------- program constants -------------------------- *)
\* core/cache.py: TTLCache(maxsize=100, ttl=3600)
TTL == 3600
\* query_engine.py: if len(payload.questions) <= 3
GatherLimit == 3
\* query_engine.py: batch_size = 2
batch_size == 2
\* query_engine.py: top_k=8, initial_context_chunks[:8], len(...) > 8
TopK == 8
\* query_engine.py: use_validation and len(payload.questions) <= 2
ValidationLimit == 2

HTTP_200_OK == 200
HTTP_401_UNAUTHORIZED == 401
HTTP_422_UNPROCESSABLE == 422
HTTP_500_INTERNAL_SERVER_ERROR == 500

\* the clock advances by more than one TTL at a time
TickStep == TTL + 1

Min(a, b) == IF a < b THEN a ELSE b

(* ------------------------------ security ------------------------------- *)
\* the configured token (os.getenv("API_AUTH_TOKEN"))
VALID_TOKEN == "secret"

\* what the bearer scheme hands to validate_token: no credentials at all,
\* or a (scheme, credentials) pair
NoCredentials == [present |-> FALSE, scheme |-> "", credentials |-> ""]
Credentials ==
  { NoCredentials,
    [present |-> TRUE, scheme |-> "Basic",  credentials |-> "secret"],
    [present |-> TRUE, scheme |-> "Bearer", credentials |-> "wrong"],
    [present |-> TRUE, scheme |-> "Bearer", credentials |-> "secret"] }

\* faulty variant: the token comparison is dropped
validate_token_noTokenCheck(cred) ==
  IF ~cred.present \/ cred.scheme # "Bearer"
  THEN [raised |-> TRUE, status |-> HTTP_401_UNAUTHORIZED,
        detail |-> "Invalid or missing API token"]
  ELSE [raised |-> FALSE, status |-> 0, detail |-> ""]

\* validate_token: raises HTTPException(401) unless the credentials are a
\* Bearer token equal to VALID_TOKEN
validate_token(cred) ==
  IF ~cred.present \/ cred.scheme # "Bearer" \/ cred.credentials # VALID_TOKEN
  THEN [raised |-> TRUE, status |-> HTTP_401_UNAUTHORIZED,
        detail |-> "Invalid or missing API token"]
  ELSE [raised |-> FALSE, status |-> 0, detail |-> ""]

(* --------------------------- request schema ---------------------------- *)
\* HackRxRequest: documents: HttpUrl, questions: list[str] (no length
\* constraint)
HackRxRequest_valid(url, questions) == url \in GoodURLs

(* ------------------------------- cache --------------------------------- *)
\* faulty variant: every URL gets the same key
get_cache_key_constant(document_url) == "md5:0a"

\* get_cache_key: md5 hex digest of the URL (distinct URLs of the model get
\* distinct digests)
get_cache_key(document_url) ==
  CASE document_url = "http://h/a.pdf" -> "md5:0a"
    [] document_url = "http://h/b.pdf" -> "md5:0b"
    [] OTHER -> "md5:0c"

(* -------------------------- answer generator --------------------------- *)
\* usage records: response.usage of the OpenAI client, or Python's None
NoneUsage == [isNone |-> TRUE, total_tokens |-> 0]
Usage(t) == [isNone |-> FALSE, total_tokens |-> t]
ZeroUsage == Usage(0)

\* llm.py: the fixed answer of get_simple_llm_answer's except branch
SIMPLE_ERROR_ANSWER == "I apologize, but I encountered an error while processing your question. Please try again."

\* outcomes of one chat.completions.create call: it raises (ok = FALSE), or
\* it returns a message content and response.usage (None when has_usage is
\* FALSE)
LLMFailure == [ok |-> FALSE, content |-> "", has_usage |-> FALSE, total_tokens |-> 0]
LLMReplies ==
  { [ok |-> TRUE, content |-> "a1", has_usage |-> TRUE, total_tokens |-> 3] }
LLMOutcomes == {LLMFailure} \cup LLMReplies

\* outcomes of the self-consistency call of get_llm_answer: not made (simple
\* question), made and failed, made and answered with a CORRECTED_ANSWER
\* longer than 10 characters
ConsistencyOutcomes ==
  { [ran |-> FALSE, ok |-> FALSE, corrected |-> "", total_tokens |-> 0],
    [ran |-> TRUE,  ok |-> FALSE, corrected |-> "", total_tokens |-> 0],
    [ran |-> TRUE,  ok |-> TRUE,  corrected |-> "a2", total_tokens |-> 1] }

\* faulty variant: the except branch re-raises instead of returning the fixed answer
get_simple_llm_answer_reraise(s) ==
  IF s.ok
  THEN [raised |-> FALSE, answer |-> s.content,
        usage |-> IF s.has_usage THEN Usage(s.total_tokens) ELSE NoneUsage]
  ELSE [raised |-> TRUE, answer |-> "", usage |-> NoneUsage]

\* get_simple_llm_answer: one LLM call; on any exception the fixed answer
\* and None
get_simple_llm_answer(s) ==
  IF s.ok
  THEN [raised |-> FALSE, answer |-> s.content,
        usage |-> IF s.has_usage THEN Usage(s.total_tokens) ELSE NoneUsage]
  ELSE [raised |-> FALSE, answer |-> SIMPLE_ERROR_ANSWER, usage |-> NoneUsage]

\* get_llm_answer: primary call p; then the optional consistency call c,
\* whose tokens are added to usage (if usage:) and whose failure is
\* swallowed; any exception of the primary path falls back to
\* get_simple_llm_answer (call s)
get_llm_answer(p, c, s) ==
  IF p.ok
  THEN LET tokens == IF c.ran /\ c.ok THEN p.total_tokens + c.total_tokens
                     ELSE p.total_tokens
           answer == IF c.ran /\ c.ok /\ c.corrected # "" THEN c.corrected
                     ELSE p.content
       IN [raised |-> FALSE, answer |-> answer,
           usage |-> IF p.has_usage THEN Usage(tokens) ELSE NoneUsage]
  ELSE get_simple_llm_answer(s)

(* ------------------------------ validator ------------------------------ *)
\* replies of the validator LLM, line by line: the SUPPORTED: line ("" when
\* absent), the text after CONFIDENCE: ("" when the line is absent) and the
\* text after CORRECTED_ANSWER: ("" when absent or empty)
ValidatorFailure == [ok |-> FALSE, supported |-> "", confidence |-> "", corrected |-> ""]
ValidatorReplies ==
  { [ok |-> TRUE, supported |-> "SUPPORTED: YES", confidence |-> "0.9", corrected |-> ""],
    [ok |-> TRUE, supported |-> "SUPPORTED: NO",  confidence |-> "0.3", corrected |-> "c1"],
    [ok |-> TRUE, supported |-> "SUPPORTED: NO",  confidence |-> "0.3", corrected |-> ""] }
ValidatorOutcomes == {ValidatorFailure} \cup ValidatorReplies

\* float(confidence) in tenths; Parsable is FALSE where float() raises
ConfidenceTexts == {"0.3", "0.5", "0.6", "0.9"}
UnparsableConfidenceTexts == {"high"}
Parsable(text) == text \in ConfidenceTexts
\* faulty variant: 0.6 is read as less than the threshold
Tenths_below(text) ==
  CASE text = "0.3" -> 3
    [] text = "0.5" -> 5
    [] text = "0.6" -> 5
    [] text = "0.9" -> 9
    [] OTHER -> 0

Tenths(text) ==
  CASE text = "0.3" -> 3
    [] text = "0.5" -> 5
    [] text = "0.6" -> 6
    [] text = "0.9" -> 9
    [] OTHER -> 0

\* the SUPPORTED: line of a reply, "" when the reply has none
SupportedLines == {"", "SUPPORTED: NO", "SUPPORTED: YES", "SUPPORTED: yes"}

\* "YES" in line.upper()
ContainsYES(line) == line \in {"SUPPORTED: YES", "SUPPORTED: yes"}

\* faulty variant: is_supported defaults to True and no line overrides it
parse_validation_result_alwaysSupported(v) ==
  [is_supported |-> TRUE,
   confidence |-> IF v.confidence = "" THEN "0.5" ELSE v.confidence,
   corrected_answer |-> v.corrected]

\* parse_validation_result: defaults is_supported = False, confidence = "0.5",
\* corrected_answer = ""; each line of the reply overrides its field
parse_validation_result(v) ==
  [is_supported |-> ContainsYES(v.supported),
   confidence |-> IF v.confidence = "" THEN "0.5" ELSE v.confidence,
   corrected_answer |-> v.corrected]

\* faulty variant: a failed LLM call rejects the answer
validate_answer_failClosed(v, answer) ==
  IF ~v.ok THEN [is_valid |-> FALSE, answer |-> ""]
  ELSE LET parsed == parse_validation_result(v)
       IN IF ~Parsable(parsed.confidence)
          THEN [is_valid |-> TRUE, answer |-> answer]
          ELSE IF parsed.is_supported /\ Tenths(parsed.confidence) >= 6
               THEN [is_valid |-> TRUE, answer |-> answer]
               ELSE [is_valid |-> FALSE,
                     answer |-> IF parsed.corrected_answer # ""
                                THEN parsed.corrected_answer ELSE answer]

\* validate_answer: (is_valid, answer); any exception (LLM call, float())
\* returns (True, answer)
validate_answer(v, answer) ==
  IF ~v.ok THEN [is_valid |-> TRUE, answer |-> answer]
  ELSE LET parsed == parse_validation_result(v)
       IN IF ~Parsable(parsed.confidence)
          THEN [is_valid |-> TRUE, answer |-> answer]
          ELSE IF parsed.is_supported /\ Tenths(parsed.confidence) >= 6
               THEN [is_valid |-> TRUE, answer |-> answer]
               ELSE [is_valid |-> FALSE,
                     answer |-> IF parsed.corrected_answer # ""
                                THEN parsed.corrected_answer ELSE answer]

(* ------------------------------- indexer ------------------------------- *)
\* get_text_chunks is a function of the text; the text of a document is a
\* function of its URL: the chunk list of a document is named by the URL
get_text_chunks(document_url) == [doc |-> document_url]

\* [Document(page_content=chunk, ...) for chunk in text_chunks]: the list
\* object request r builds from the chunks
Documents(chunks, r) == [doc |-> chunks.doc, built_by |-> r]

\* faulty variant: the digest does not depend on the chunk contents
chunks_cache_key_constant(chunks) == "chunks_"

\* embedding.get_cache_key: digest of the chunk contents
chunks_cache_key(chunks) == chunks.doc

\* get_vector_store(chunks) in state cc of embedding.chunk_cache, called by
\* request r; ok says whether PineconeVectorStore.from_documents succeeds.
\* A chunk_cache hit returns the cached store; a miss builds a store and
\* caches it, or raises RuntimeError leaving chunk_cache as it was.
get_vector_store(cc, chunks, r, ok) ==
  LET key == chunks_cache_key(chunks)
  IN IF key \in DOMAIN cc
     THEN [raised |-> FALSE, vector_store |-> cc[key], chunk_cache |-> cc]
     ELSE IF ok
          THEN LET vs == [doc |-> chunks.doc, built_by |-> r]
               IN [raised |-> FALSE, vector_store |-> vs,
                   chunk_cache |-> [k \in DOMAIN cc \cup {key} |->
                                      IF k = key THEN vs ELSE cc[k]]]
          ELSE [raised |-> TRUE, vector_store |-> [doc |-> "", built_by |-> 0],
                chunk_cache |-> cc]

\* embedding.clear_caches: chunk_cache.clear()
clear_caches(cc) == [k \in {} |-> [doc |-> "", built_by |-> 0]]

(* ----------------------------- orchestrator ---------------------------- *)
\* process_query_accurate: process_query(use_reranker=True,
\* use_validation=True, reranker_type="llm")
use_reranker == TRUE
use_validation == TRUE

\* faulty variant: every request is validated
validates_always(questions) == use_validation

\* get_answer_with_optimizations, line 99: the answer is validated
validates(questions) == use_validation /\ Len(questions) <= ValidationLimit

\* get_answer_with_optimizations, lines 102-111: validated_answer if not
\* is_valid, else generated_answer
validated_or_generated(val, generated_answer) ==
  IF ~val.is_valid THEN val.answer ELSE generated_answer

\* faulty variant: the lookup never finds the entry
CacheHit_neverHits(dc, key) == FALSE

\* query_engine.py: if cache_key in document_cache
CacheHit(dc, key) == key \in DOMAIN dc

\* query_engine.py: document_cache[cache_key] = (text_chunks_docs, vector_store)
CachePut(dc, key, entry) ==
  [k \in DOMAIN dc \cup {key} |-> IF k = key THEN entry ELSE dc[k]]

\* faulty variant: the entry is cached before the vector store is built
document_stage_cacheFirst(dc, cc, url, r, fetch_ok, index_ok) ==
  LET key == get_cache_key(url)
      chunks == Documents(get_text_chunks(url), r)
      vs == get_vector_store(cc, chunks, r, index_ok)
  IN IF ~fetch_ok
     THEN [raised_by |-> "fetch", document_cache |-> dc, chunk_cache |-> cc]
     ELSE [raised_by |-> IF vs.raised THEN "index" ELSE "",
           document_cache |-> CachePut(dc, key,
                                [chunks |-> chunks, vector_store |-> vs.vector_store]),
           chunk_cache |-> vs.chunk_cache]

\* process_query, cache-miss branch, from the return of get_document_text
\* on: get_text_chunks, get_vector_store and the cache write, in state dc of
\* document_cache and cc of chunk_cache.  An exception of the fetcher or of
\* the indexer leaves before the cache write.
document_stage(dc, cc, url, r, fetch_ok, index_ok) ==
  LET key == get_cache_key(url)
      chunks == Documents(get_text_chunks(url), r)
      vs == get_vector_store(cc, chunks, r, index_ok)
  IN IF ~fetch_ok
     THEN [raised_by |-> "fetch", document_cache |-> dc, chunk_cache |-> cc]
     ELSE IF vs.raised
     THEN [raised_by |-> "index", document_cache |-> dc,
           chunk_cache |-> vs.chunk_cache]
     ELSE [raised_by |-> "", document_cache |-> CachePut(dc, key,
                                [chunks |-> chunks, vector_store |-> vs.vector_store]),
           chunk_cache |-> vs.chunk_cache]

\* faulty variant: the slice runs to the end of the list
Batch_toEnd(questions, i) == SubSeq(questions, i + 1, Len(questions))

\* payload.questions[i:i + batch_size] (0-based i)
Batch(questions, i) ==
  SubSeq(questions, i + 1, Min(i + batch_size, Len(questions)))

\* the coroutine objects built for a list of questions: each runs at once to
\* its first await (asyncio.to_thread(ensemble_retriever.invoke, question)).
\* chunks is initial_context_chunks while the reranker runs and
\* final_chunks while get_llm_answer runs, nchunks its length, foreign those
\* of them that are chunks of another document than the request's.
\* generated and validator_failed are history: the answer get_llm_answer
\* returned, and whether the LLM call of validate_answer raised.
NewTasks(qs) ==
  [j \in 1..Len(qs) |->
     [pc |-> "retrieving", question |-> qs[j], nchunks |-> 0, chunks |-> <<>>,
      foreign |-> {},
      answer |-> "", usage |-> NoneUsage, generated |-> "",
      validator_failed |-> FALSE]]

\* faulty variant: the batched path is taken whatever the number of questions
FirstQuestions_alwaysBatched(questions) == Batch(questions, 0)

\* the questions whose coroutines are created first: all of them in the
\* gather path, the first batch in the batched path
FirstQuestions(questions) ==
  IF Len(questions) <= GatherLimit THEN questions ELSE Batch(questions, 0)

\* faulty variant: results in completion order
gather_completionOrder(ts, first, last, order) ==
  [j \in 1..(last - first + 1) |->
     [answer |-> ts[order[j]].answer, usage |-> ts[order[j]].usage]]

\* asyncio.gather(*tasks): the results of tasks first..last of ts, in the
\* order of the awaitables, whatever the completion order was
gather(ts, first, last, order) ==
  [j \in 1..(last - first + 1) |->
     [answer |-> ts[first + j - 1].answer, usage |-> ts[first + j - 1].usage]]

\* final_answers = [res[0] for res in results]
final_answers(results) == [j \in 1..Len(results) |-> results[j].answer]

RECURSIVE total_tokens_skipLast(_)
\* faulty variant: the last result is left out of the sum
total_tokens_skipLast(results) ==
  IF Len(results) <= 1 THEN 0
  ELSE (IF results[1].usage.isNone THEN 0 ELSE results[1].usage.total_tokens)
       + total_tokens_skipLast(Tail(results))

RECURSIVE total_tokens(_)
\* sum(res[1].total_tokens for res in results if res[1] is not None)
total_tokens(results) ==
  IF results = <<>> THEN 0
  ELSE (IF results[1].usage.isNone THEN 0 ELSE results[1].usage.total_tokens)
       + total_tokens(Tail(results))

(* ------------------------------- endpoint ------------------------------ *)
Digit(d) ==
  CASE d = 0 -> "0" [] d = 1 -> "1" [] d = 2 -> "2" [] d = 3 -> "3"
    [] d = 4 -> "4" [] d = 5 -> "5" [] d = 6 -> "6" [] d = 7 -> "7"
    [] d = 8 -> "8" [] OTHER -> "9"

RECURSIVE str(_)
\* str(total_tokens): the decimal digits of a non-negative int
str(n) == IF n < 10 THEN <<Digit(n)>> ELSE Append(str(n \div 10), Digit(n % 10))

NoResponse ==
  [status |-> 0, detail |-> "", has_answers |-> FALSE, answers |-> <<>>,
   has_token_usage |-> FALSE, token_usage |-> <<>>]

\* an HTTPException response: a status and a detail, no body fields, no
\* custom header
ErrorResponse(status, detail) ==
  [status |-> status, detail |-> detail, has_answers |-> FALSE, answers |-> <<>>,
   has_token_usage |-> FALSE, token_usage |-> <<>>]

\* faulty variant: the except branch answers with what the finished pipelines produced
ServerError_partial(ts) ==
  [status |-> HTTP_500_INTERNAL_SERVER_ERROR,
   detail |-> "An unexpected server error occurred.",
   has_answers |-> TRUE,
   answers |-> [j \in 1..Len(ts) |-> ts[j].answer],
   has_token_usage |-> FALSE, token_usage |-> <<>>]

\* run_hackrx, except branch: HTTPException(500, fixed detail); ts are the
\* request's question coroutines at that moment
ServerError(ts) ==
  ErrorResponse(HTTP_500_INTERNAL_SERVER_ERROR,
                "An unexpected server error occurred.")

\* run_hackrx, try branch after process_query_accurate returned
\* (final_answers, total_tokens): X-Token-Usage header and the answers
OkResponse(results) ==
  [status |-> HTTP_200_OK, detail |-> "", has_answers |-> TRUE,
   answers |-> final_answers(results),
   has_token_usage |-> TRUE, token_usage |-> str(total_tokens(results))]

(* -------------------------------- state -------------------------------- *)
VARIABLES
  now,             \* the clock, in seconds
  document_cache,  \* query_engine.document_cache: cache key -> (chunks, store)
  chunk_cache,     \* embedding.chunk_cache: chunk digest -> vector store
  rpc,             \* per request slot: where its run_hackrx coroutine stands
  payload,         \* per request slot: the HackRxRequest and its credentials
  tasks,           \* per request slot: the question coroutines created so far
  results,         \* per request slot: the results list of process_query
  completed,       \* per request slot: tasks of the current gather, in
                   \* completion order
  response,        \* per request slot: the HTTP response
  hist,            \* per request slot: what the request has done (history)
  ready_since,     \* per URL: time of its last successful document stage, -1
                   \* when there was none (history)
  cleared_since,   \* per URL: clear_caches() ran after that stage (history)
  call,            \* a function called on its own: its name and arguments
  ret              \* what that call returned

vars == <<now, document_cache, chunk_cache, rpc, payload, tasks, results,
          completed, response, hist, ready_since, cleared_since, call, ret>>

NoCall == [fn |-> ""]

NoPayload == [documents |-> "", questions |-> <<>>, credentials |-> NoCredentials]

NoHist ==
  [called_process_query |-> FALSE, cache_read |-> FALSE, fetched |-> FALSE,
   chunked |-> FALSE, indexed |-> FALSE, cache_written |-> FALSE,
   ready_at_start |-> FALSE, expired_at_start |-> FALSE,
   cleared_at_start |-> FALSE, raised_by |-> ""]

Init ==
  /\ now = 0
  /\ document_cache = [k \in {} |-> [chunks |-> [doc |-> "", built_by |-> 0],
                                     vector_store |-> [doc |-> "", built_by |-> 0]]]
  /\ chunk_cache = [k \in {} |-> [doc |-> "", built_by |-> 0]]
  /\ rpc = [r \in Reqs |-> "free"]
  /\ payload = [r \in Reqs |-> NoPayload]
  /\ tasks = [r \in Reqs |-> <<>>]
  /\ results = [r \in Reqs |-> <<>>]
  /\ completed = [r \in Reqs |-> <<>>]
  /\ response = [r \in Reqs |-> NoResponse]
  /\ hist = [r \in Reqs |-> NoHist]
  /\ ready_since = [u \in GoodURLs |-> -1]
  /\ cleared_since = [u \in GoodURLs |-> FALSE]
  /\ call = NoCall
  /\ ret = NoCall

RECURSIVE OpenQuestions(_)
\* number of questions of the open requests among S (at least one each)
OpenQuestions(S) ==
  IF S = {} THEN 0
  ELSE LET r == CHOOSE x \in S : TRUE
       IN (IF rpc[r] = "free" THEN 0
           ELSE IF payload[r].questions = <<>> THEN 1
           ELSE Len(payload[r].questions))
          + OpenQuestions(S \ {r})

Running(t) == t.pc \notin {"done", "raised"}

\* history: clear_caches() has run after every document stage so far
ClearedAll == [u \in GoodURLs |-> ready_since[u] >= 0]

\* process_query once text_chunks_docs and vector_store are known (cache hit
\* or completed document stage), cc being embedding.chunk_cache then (rs
\* and cs the histories ready_since and cleared_since then): the retrievers
\* are built and the first coroutines are created and awaited.
\* With no question, gather() returns [] at once and the request completes.
StartPipelines(r, questions, cc, rs, cs) ==
  IF questions = <<>>
  THEN /\ rpc' = [rpc EXCEPT ![r] = "responded"]
       /\ response' = [response EXCEPT ![r] = OkResponse(<<>>)]
       /\ chunk_cache' = clear_caches(cc)
       /\ tasks' = tasks
       /\ cleared_since' = [u \in GoodURLs |-> rs[u] >= 0]
  ELSE /\ rpc' = [rpc EXCEPT ![r] = "gathering"]
       /\ response' = response
       /\ chunk_cache' = cc
       /\ tasks' = [tasks EXCEPT ![r] = NewTasks(FirstQuestions(questions))]
       /\ cleared_since' = cs

\* a request of n questions may arrive: no request is open, or one request
\* is open and the two have at most maxc questions together (requests
\* overlap in pairs)
Admit(n, maxc) ==
  \/ \A x \in Reqs : rpc[x] = "free"
  \/ /\ Cardinality({x \in Reqs : rpc[x] # "free"}) = 1
     /\ (IF n = 0 THEN 1 ELSE n) + OpenQuestions(Reqs) <= maxc

\* A request arrives: validate_token, HackRxRequest validation, run_hackrx,
\* process_query up to its first await (the cache lookup included).  A
\* rejected request never becomes a HackRxRequest payload.  (maxc bounds the
\* overlap of requests, see Admit.)
Receive(r, cred, url, n, maxc) ==
  LET questions == [j \in 1..n |-> j]
      auth == validate_token(cred)
      key == get_cache_key(url)
  IN
  /\ rpc[r] = "free"
  /\ UNCHANGED <<call, ret>>
  /\ \A x \in Reqs : x < r => rpc[x] # "free"
  /\ Admit(n, maxc)
  /\ UNCHANGED <<now, document_cache, results, completed>>
  /\ payload' = [payload EXCEPT ![r] =
                   IF auth.raised \/ ~HackRxRequest_valid(url, questions)
                   THEN [NoPayload EXCEPT !.credentials = cred]
                   ELSE [documents |-> url, questions |-> questions,
                         credentials |-> cred]]
  /\ IF auth.raised
     THEN /\ rpc' = [rpc EXCEPT ![r] = "responded"]
          /\ response' = [response EXCEPT ![r] = ErrorResponse(auth.status, auth.detail)]
          /\ UNCHANGED <<chunk_cache, tasks, hist, ready_since, cleared_since>>
     ELSE IF ~HackRxRequest_valid(url, questions)
     THEN /\ rpc' = [rpc EXCEPT ![r] = "responded"]
          /\ response' = [response EXCEPT ![r] =
                            ErrorResponse(HTTP_422_UNPROCESSABLE, "validation error")]
          /\ UNCHANGED <<chunk_cache, tasks, hist, ready_since, cleared_since>>
     ELSE LET h == [NoHist EXCEPT
                      !.called_process_query = TRUE,
                      !.cache_read = TRUE,
                      !.ready_at_start = (ready_since[url] >= 0),
                      !.expired_at_start =
                         (ready_since[url] >= 0 /\ now - ready_since[url] > TTL),
                      !.cleared_at_start =
                         (ready_since[url] >= 0 /\ cleared_since[url])]
          IN /\ ready_since' = ready_since
             /\ IF CacheHit(document_cache, key)
                THEN /\ hist' = [hist EXCEPT ![r] = h]
                     /\ StartPipelines(r, questions, chunk_cache,
                                       ready_since, cleared_since)
                ELSE /\ hist' = [hist EXCEPT ![r] = [h EXCEPT !.fetched = TRUE]]
                     /\ rpc' = [rpc EXCEPT ![r] = "fetching"]
                     /\ UNCHANGED <<chunk_cache, tasks, response, cleared_since>>

\* get_document_text returns or raises; then, without suspension,
\* get_text_chunks, get_vector_store, the cache write and the start of the
\* question coroutines; an exception makes run_hackrx answer 500
DocumentStage(r, id, fetch_ok, index_ok) ==
  LET url == payload[r].documents
      d == document_stage(document_cache, chunk_cache, url, id, fetch_ok, index_ok)
  IN
  /\ rpc[r] = "fetching"
  /\ UNCHANGED <<call, ret>>
  /\ UNCHANGED <<now, payload, results, completed>>
  /\ document_cache' = d.document_cache
  /\ IF d.raised_by # ""
     THEN /\ rpc' = [rpc EXCEPT ![r] = "responded"]
          /\ response' = [response EXCEPT ![r] = ServerError(tasks[r])]
          /\ hist' = [hist EXCEPT ![r].raised_by = d.raised_by,
                                  ![r].chunked = fetch_ok, ![r].indexed = fetch_ok]
          /\ chunk_cache' = d.chunk_cache
          /\ UNCHANGED <<tasks, ready_since, cleared_since>>
     ELSE /\ hist' = [hist EXCEPT ![r].chunked = TRUE, ![r].indexed = TRUE,
                                  ![r].cache_written = TRUE]
          /\ ready_since' = [ready_since EXCEPT ![url] = now]
          /\ StartPipelines(r, payload[r].questions, d.chunk_cache,
                            [ready_since EXCEPT ![url] = now],
                            [cleared_since EXCEPT ![url] = FALSE])

(* ------------------------------ reranker ------------------------------- *)
\* A chunk is named by a number; ChunkWords is set(chunk.lower().split()).
\* The texts have fewer than 50 words, no digit, no '|' or '-', and none of
\* the question words as a substring.
ChunkWords(c) ==
  CASE c = 2 -> {"grace", "period"}
    [] c = 3 -> {"premium", "claim"}
    [] c = 4 -> {"clause", "condition"}
    [] OTHER -> {"xyz"}

\* the queries: neither contains a question word or a quantitative indicator
Queries == {"grace period", "grace term"}

\* set(query.lower().split())
QueryWords(query) ==
  IF query = "grace period" THEN {"grace", "period"} ELSE {"grace", "term"}

\* any(indicator in query.lower() for indicator in scenario_indicators): the
\* indicator 'i' is a substring of "grace period"
is_scenario_based(query) == query = "grace period"

\* rerank_chunks_simple, step 2: weight of a chunk word in insurance_keywords
KeywordWeight(w) ==
  CASE w \in {"coverage", "policy", "insured", "premium", "claim"} -> 3
    [] w \in {"clause", "section", "chapter", "part"} -> 2
    [] w \in {"grace", "period", "condition"} -> 1
    [] OTHER -> 0

RECURSIVE KeywordScore(_)
KeywordScore(W) ==
  IF W = {} THEN 0
  ELSE LET w == CHOOSE x \in W : TRUE
       IN KeywordWeight(w) + KeywordScore(W \ {w})

\* rerank_chunks_simple, the score of one chunk: word overlap (step 1),
\* insurance keywords (2), scenario indicators and rule words (4), length
\* under 50 words (6), policy terms (8); steps 3, 5, 7, 9 and 10 add nothing
\* for these texts and queries
simple_score(c, query) ==
  LET words == ChunkWords(c)
  IN Cardinality(QueryWords(query) \cap words) * 4
     + KeywordScore(words)
     + (IF is_scenario_based(query)
        THEN Cardinality({"condition"} \cap words) * 3
             + (IF "condition" \in words THEN 4 ELSE 0)
        ELSE 0)
     - 2
     + (IF "clause" \in words THEN 3 ELSE 0)

\* chunks[:top_k]
Slice(chunks, top_k) == SubSeq(chunks, 1, Min(Len(chunks), top_k))

\* the place of chunk i among the chunks already placed: after every chunk
\* of a score not less than its own, before the first chunk of a lower score
RECURSIVE InsertByScore(_, _, _)
InsertByScore(sorted, scores, i) ==
  IF sorted = <<>> THEN <<i>>
  ELSE IF scores[Head(sorted)] >= scores[i]
       THEN <<Head(sorted)>> \o InsertByScore(Tail(sorted), scores, i)
       ELSE <<i>> \o sorted

\* the places 1..len(scores) in the order of the sort, the places from i on
\* still to be placed
RECURSIVE OrderByScore(_, _, _)
OrderByScore(sorted, scores, i) ==
  IF i > Len(scores) THEN sorted
  ELSE OrderByScore(InsertByScore(sorted, scores, i), scores, i + 1)

\* scored_chunks.sort(key=lambda x: x[0], reverse=True): the chunks by
\* decreasing score, chunks of equal score in their input order (the sort
\* is stable)
SortedByScore(scores, chunks) ==
  LET order == OrderByScore(<<>>, scores, 1)
  IN [p \in 1..Len(chunks) |-> chunks[order[p]]]

\* rerank_chunks_simple: the top_k chunks by keyword score
rerank_chunks_simple(chunks, query, top_k) ==
  IF chunks = <<>> THEN [raised |-> FALSE, chunks |-> <<>>]
  ELSE [raised |-> FALSE,
        chunks |-> Slice(SortedByScore([i \in 1..Len(chunks) |->
                                          simple_score(chunks[i], query)], chunks),
                         top_k)]

\* What a scoring call of rerank_chunks gives: the call raises ("raise"),
\* its content is not JSON ("bad_json"), is JSON but not a list
\* ("not_list"), or is a list: its entries are numbers (relevance 0..10,
\* confidence in tenths) unless numbers is FALSE
ScoringFailures ==
  { [kind |-> k, numbers |-> FALSE, scores |-> <<>>] :
      k \in {"raise", "bad_json", "not_list"} }
RelevanceValues == {2, 9}
ConfidenceValues == {1, 9}

\* the lists of m entries over V
Lists(V, m) ==
  { [kind |-> "list", numbers |-> TRUE, scores |-> f] : f \in [1..m -> V] }

\* the outcomes of a scoring call for n chunks: the failures, the lists of
\* n numbers, a list of the wrong length, a list with an entry that is no
\* number
ScoringOutcomes(V, n) ==
  ScoringFailures \cup Lists(V, n)
  \cup { [kind |-> "list", numbers |-> TRUE, scores |-> [i \in 1..(n + 1) |-> 0]],
         [kind |-> "list", numbers |-> FALSE, scores |-> [i \in 1..n |-> 0]] }

\* the default confidence of rerank_chunks, 0.7, in tenths
DefaultConfidence == 7

\* final_score = (rel_score * 0.7) + (conf_score * 10 * 0.3), times 10
final_score(rel_score, conf_tenths) == rel_score * 7 + conf_tenths * 3

\* faulty variant: an exception of the scoring backend is not caught
rerank_chunks_reraise(chunks, query, top_k, rel, conf) ==
  IF chunks = <<>> THEN [raised |-> FALSE, chunks |-> <<>>]
  ELSE IF rel.kind = "raise" THEN [raised |-> TRUE, chunks |-> <<>>]
  ELSE [raised |-> FALSE, chunks |-> Slice(chunks, top_k)]

\* rerank_chunks with the outcomes rel and conf of its two scoring calls.
\* Empty input gives []; a failed relevance call, unparsable JSON, a score
\* set that is no list of len(chunks) entries, a failed or unparsable
\* confidence call and a non-numeric entry (TypeError in final_score) all
\* give chunks[:top_k]; a malformed confidence list is replaced by 0.7 each.
rerank_chunks(chunks, query, top_k, rel, conf) ==
  LET n == Len(chunks)
      fallback == [raised |-> FALSE, chunks |-> Slice(chunks, top_k)]
      confidence_scores ==
        IF conf.kind # "list" \/ Len(conf.scores) # n
        THEN [i \in 1..n |-> DefaultConfidence]
        ELSE conf.scores
      numeric ==
        rel.numbers /\ (conf.kind = "list" /\ Len(conf.scores) = n => conf.numbers)
      final_scores ==
        [i \in 1..n |-> final_score(rel.scores[i], confidence_scores[i])]
  IN IF chunks = <<>> THEN [raised |-> FALSE, chunks |-> <<>>]
     ELSE IF rel.kind \in {"raise", "bad_json"} THEN fallback
     ELSE IF rel.kind # "list" \/ Len(rel.scores) # n THEN fallback
     ELSE IF conf.kind \in {"raise", "bad_json"} THEN fallback
     ELSE IF ~numeric THEN fallback
     ELSE [raised |-> FALSE,
           chunks |-> Slice(SortedByScore(final_scores, chunks), top_k)]

\* process_query(reranker_type=...): "llm" in process_query_accurate
RerankerTypes == {"llm", "simple"}

\* faulty variant: the reranker is called whatever the number of chunks
rerank_stage_always(initial_context_chunks, question, reranker_type, rel, conf) ==
  IF reranker_type = "llm"
  THEN rerank_chunks(initial_context_chunks, question, TopK, rel, conf)
  ELSE rerank_chunks_simple(initial_context_chunks, question, TopK)

\* get_answer_with_optimizations, stage 2: final_chunks.  The reranker is
\* called with top_k = 8 for more than 8 chunks; otherwise
\* initial_context_chunks[:8]
rerank_stage(initial_context_chunks, question, reranker_type, rel, conf) ==
  IF use_reranker /\ Len(initial_context_chunks) > TopK
  THEN IF reranker_type = "llm"
       THEN rerank_chunks(initial_context_chunks, question, TopK, rel, conf)
       ELSE rerank_chunks_simple(initial_context_chunks, question, TopK)
  ELSE [raised |-> FALSE, chunks |-> Slice(initial_context_chunks, TopK)]

\* the modes of process_query: process_query_accurate,
\* process_query_simple_rerank, process_query_fast
Modes ==
  { [use_reranker |-> TRUE, reranker_type |-> "llm"],
    [use_reranker |-> TRUE, reranker_type |-> "simple"],
    [use_reranker |-> FALSE, reranker_type |-> "none"] }

\* faulty variant: without reranker every retrieved chunk is kept
final_chunks_unsliced(initial_context_chunks, question, mode, rel, conf) ==
  IF mode.use_reranker /\ Len(initial_context_chunks) > TopK
  THEN [invoked |-> TRUE,
        chunks |-> IF mode.reranker_type = "llm"
                   THEN rerank_chunks(initial_context_chunks, question, TopK,
                                      rel, conf).chunks
                   ELSE rerank_chunks_simple(initial_context_chunks, question,
                                             TopK).chunks]
  ELSE [invoked |-> FALSE, chunks |-> initial_context_chunks]

\* get_answer_with_optimizations, stage 2, in a mode of process_query:
\* whether a reranker is invoked, and final_chunks
final_chunks(initial_context_chunks, question, mode, rel, conf) ==
  IF mode.use_reranker /\ Len(initial_context_chunks) > TopK
  THEN [invoked |-> TRUE,
        chunks |-> IF mode.reranker_type = "llm"
                   THEN rerank_chunks(initial_context_chunks, question, TopK,
                                      rel, conf).chunks
                   ELSE rerank_chunks_simple(initial_context_chunks, question,
                                             TopK).chunks]
  ELSE [invoked |-> FALSE, chunks |-> Slice(initial_context_chunks, TopK)]

(* ------------------------ the question coroutines ---------------------- *)
\* outcomes of ensemble_retriever.invoke: it raises, or returns n chunks, of
\* which those in foreign are chunks of other documents
RetrievedCounts == {0, TopK + 1}
RetrievalOutcomes ==
  {[ok |-> FALSE, n |-> 0, foreign |-> {}]}
  \cup {[ok |-> TRUE, n |-> n, foreign |-> {}] : n \in RetrievedCounts}
  \cup {[ok |-> TRUE, n |-> n, foreign |-> {1}] : n \in RetrievedCounts \ {0}}

\* the documents whose chunks are in the Pinecone index: every successful
\* document stage upserts into the one index PINECONE_INDEX_NAME, and
\* nothing deletes from it
PineconeIndex == {u \in GoodURLs : ready_since[u] >= 0}

\* rerank_chunks(chunks, query, top_k): the number of chunks it returns, on
\* the scored path ([:top_k] of the sorted list) and on every fallback path
\* (chunks[:top_k])
rerank_chunks_len(n, llm_ok, top_k) == Min(n, top_k)

\* the chunks ensemble_retriever.invoke returns, named by their place
Retrieved(n) == [i \in 1..n |-> i]

\* the outcomes of the two scoring calls of rerank_chunks in a pipeline: the
\* relevance call raises, or scores the last chunk highest; the confidence
\* call returns no list
PipelineRelevance(n, llm_ok) ==
  IF llm_ok
  THEN [kind |-> "list", numbers |-> TRUE,
        scores |-> [i \in 1..n |-> IF i = n THEN 9 ELSE 2]]
  ELSE [kind |-> "raise", numbers |-> FALSE, scores |-> <<>>]
PipelineConfidence == [kind |-> "not_list", numbers |-> FALSE, scores |-> <<>>]

\* k names a coroutine of request r
TaskIndexOK(r, k) == k \in 1..Len(tasks[r])

\* get_answer_with_optimizations, stage 1 returns: ensemble_retriever.invoke
\* raised (nothing catches it: the coroutine raises), or returned o.n chunks;
\* then the reranker is called (more than TopK chunks) or the first TopK
\* chunks are kept and get_llm_answer is called
RetrieveReturn(r, k, o) ==
  /\ TaskIndexOK(r, k)
  /\ tasks[r][k].pc = "retrieving"
  /\ o.foreign # {} => PineconeIndex \ {payload[r].documents} # {}
  /\ UNCHANGED <<call, ret>>
  /\ UNCHANGED <<now, document_cache, chunk_cache, rpc, payload, results,
                 response, ready_since, cleared_since, completed>>
  /\ IF ~o.ok
     THEN /\ tasks' = [tasks EXCEPT ![r][k].pc = "raised"]
          /\ hist' = [hist EXCEPT ![r].raised_by =
                        IF @ = "" THEN "retrieval" ELSE @]
     ELSE /\ hist' = hist
          /\ IF use_reranker /\ o.n > TopK
             THEN tasks' = [tasks EXCEPT ![r][k].pc = "reranking",
                                         ![r][k].nchunks = o.n,
                                         ![r][k].chunks = Retrieved(o.n),
                                         ![r][k].foreign = o.foreign]
             ELSE tasks' = [tasks EXCEPT ![r][k].pc = "generating",
                                         ![r][k].nchunks = Min(o.n, TopK),
                                         ![r][k].chunks = Slice(Retrieved(o.n), TopK),
                                         ![r][k].foreign = o.foreign]

\* faulty variant: the generator is given the head of the retrieved chunks
\* whatever the reranker returned
RerankReturn_ignoresReranker(r, k, llm_ok) ==
  /\ TaskIndexOK(r, k)
  /\ tasks[r][k].pc = "reranking"
  /\ UNCHANGED <<call, ret>>
  /\ tasks' = [tasks EXCEPT ![r][k].pc = "generating",
                            ![r][k].nchunks =
                               rerank_chunks_len(tasks[r][k].nchunks, llm_ok, TopK),
                            ![r][k].chunks = SubSeq(@, 2, TopK + 1)]
  /\ UNCHANGED <<now, document_cache, chunk_cache, rpc, payload, results,
                 response, ready_since, cleared_since, completed, hist>>

\* rerank_chunks returns (it never raises); get_llm_answer is called with
\* the chunks it returned
RerankReturn(r, k, llm_ok) ==
  /\ TaskIndexOK(r, k)
  /\ tasks[r][k].pc = "reranking"
  /\ UNCHANGED <<call, ret>>
  /\ tasks' = [tasks EXCEPT ![r][k].pc = "generating",
                            ![r][k].nchunks =
                               rerank_chunks_len(tasks[r][k].nchunks, llm_ok, TopK),
                            ![r][k].chunks =
                               rerank_chunks(@, tasks[r][k].question, TopK,
                                             PipelineRelevance(Len(@), llm_ok),
                                             PipelineConfidence).chunks]
  /\ UNCHANGED <<now, document_cache, chunk_cache, rpc, payload, results,
                 response, ready_since, cleared_since, completed, hist>>

\* get_llm_answer returns (generated_answer, usage); with validation on and
\* at most ValidationLimit questions validate_answer is called, else the
\* coroutine returns
GenerateReturn(r, k, p, c, s) ==
  LET g == get_llm_answer(p, c, s)
  IN
  /\ TaskIndexOK(r, k)
  /\ tasks[r][k].pc = "generating"
  /\ UNCHANGED <<call, ret>>
  /\ UNCHANGED <<now, document_cache, chunk_cache, rpc, payload, results,
                 response, ready_since, cleared_since>>
  /\ IF g.raised
     THEN /\ tasks' = [tasks EXCEPT ![r][k].pc = "raised"]
          /\ hist' = [hist EXCEPT ![r].raised_by =
                        IF @ = "" THEN "generation" ELSE @]
          /\ completed' = completed
     ELSE /\ hist' = hist
          /\ IF validates(payload[r].questions)
             THEN /\ tasks' = [tasks EXCEPT ![r][k].pc = "validating",
                                            ![r][k].answer = g.answer,
                                            ![r][k].usage = g.usage,
                                            ![r][k].generated = g.answer,
                                            ![r][k].nchunks = 0,
                                            ![r][k].chunks = <<>>,
                                            ![r][k].foreign = {}]
                  /\ completed' = completed
             ELSE /\ tasks' = [tasks EXCEPT ![r][k].pc = "done",
                                            ![r][k].answer = g.answer,
                                            ![r][k].usage = g.usage,
                                            ![r][k].generated = g.answer,
                                            ![r][k].nchunks = 0,
                                            ![r][k].chunks = <<>>,
                                            ![r][k].foreign = {}]
                  /\ completed' = [completed EXCEPT ![r] = Append(@, k)]

\* validate_answer returns (is_valid, validated_answer): the coroutine
\* returns validated_answer when not valid, else generated_answer, with the
\* generator's usage
ValidateReturn(r, k, v) ==
  LET val == validate_answer(v, tasks[r][k].answer)
  IN
  /\ TaskIndexOK(r, k)
  /\ tasks[r][k].pc = "validating"
  /\ UNCHANGED <<call, ret>>
  /\ tasks' = [tasks EXCEPT ![r][k].pc = "done",
                            ![r][k].answer = validated_or_generated(val, @),
                            ![r][k].validator_failed = ~v.ok]
  /\ completed' = [completed EXCEPT ![r] = Append(@, k)]
  /\ UNCHANGED <<now, document_cache, chunk_cache, rpc, payload, results,
                 response, ready_since, cleared_since, hist>>

(* ------------------------- gather and the reply ------------------------ *)
\* tasks of the gather the request is waiting on
CurrentTasks(r) == (Len(results[r]) + 1)..Len(tasks[r])

\* gather returns: every coroutine of the current gather has returned.  In
\* the batched path the results are appended and the next batch is created;
\* after the last gather final_answers and total_tokens are computed,
\* clear_caches() runs and run_hackrx builds the 200 response.
GatherReturn(r) ==
  LET first == Len(results[r]) + 1
      last == Len(tasks[r])
      all == results[r] \o gather(tasks[r], first, last, completed[r])
      questions == payload[r].questions
  IN
  /\ rpc[r] = "gathering"
  /\ UNCHANGED <<call, ret>>
  /\ \A k \in CurrentTasks(r) : tasks[r][k].pc = "done"
  /\ results' = [results EXCEPT ![r] = all]
  /\ UNCHANGED <<now, document_cache, payload, hist, ready_since>>
  /\ IF Len(all) < Len(questions)
     THEN /\ tasks' = [tasks EXCEPT ![r] = @ \o NewTasks(Batch(questions, Len(all)))]
          /\ completed' = [completed EXCEPT ![r] = <<>>]
          /\ UNCHANGED <<rpc, response, chunk_cache, cleared_since>>
     ELSE /\ rpc' = [rpc EXCEPT ![r] = "responded"]
          /\ completed' = completed
          /\ response' = [response EXCEPT ![r] = OkResponse(all)]
          /\ chunk_cache' = clear_caches(chunk_cache)
          /\ cleared_since' = ClearedAll
          /\ tasks' = tasks

\* faulty variant: the exception of a coroutine does not end the gather
GatherRaise_waits(r) == FALSE /\ UNCHANGED vars

\* gather raises: a coroutine of the current gather raised; process_query
\* raises, run_hackrx answers 500.  The other coroutines keep running.
GatherRaise(r) ==
  /\ rpc[r] = "gathering"
  /\ UNCHANGED <<call, ret>>
  /\ \E k \in CurrentTasks(r) : tasks[r][k].pc = "raised"
  /\ rpc' = [rpc EXCEPT ![r] = "responded"]
  /\ response' = [response EXCEPT ![r] = ServerError(tasks[r])]
  /\ UNCHANGED <<now, document_cache, chunk_cache, payload, tasks, results,
                 completed, hist, ready_since, cleared_since>>

\* the response has been sent and no coroutine of the request is left: the
\* request's frame is gone and its slot is free again
Close(r) ==
  /\ rpc[r] = "responded"
  /\ UNCHANGED <<call, ret>>
  /\ \A k \in 1..Len(tasks[r]) : ~Running(tasks[r][k])
  /\ rpc' = [rpc EXCEPT ![r] = "free"]
  /\ payload' = [payload EXCEPT ![r] = NoPayload]
  /\ tasks' = [tasks EXCEPT ![r] = <<>>]
  /\ results' = [results EXCEPT ![r] = <<>>]
  /\ completed' = [completed EXCEPT ![r] = <<>>]
  /\ response' = [response EXCEPT ![r] = NoResponse]
  /\ hist' = [hist EXCEPT ![r] = NoHist]
  /\ UNCHANGED <<now, document_cache, chunk_cache, ready_since, cleared_since>>

\* time passes
Tick ==
  /\ now < MaxTicks * TickStep
  /\ UNCHANGED <<call, ret>>
  /\ now' = now + TickStep
  /\ UNCHANGED <<document_cache, chunk_cache, rpc, payload, tasks, results,
                 completed, response, hist, ready_since, cleared_since>>

\* what the callers and the external services may do
AllOutcomes ==
  [credentials |-> Credentials, urls |-> URLs, llm |-> LLMOutcomes,
   consistency |-> ConsistencyOutcomes, validator |-> ValidatorOutcomes,
   retrieval |-> RetrievalOutcomes, rerank |-> BOOLEAN,
   build_id |-> [r \in Reqs |-> 0]]

\* the same with authorised, well-formed requests and one outcome per LLM
\* call: the generator answers, the validator fails, retrieval fails or
\* returns more than TopK chunks of the request's own document, the
\* reranker's LLM answers; the objects a request
\* builds (the Document list, the vector store) carry the request's slot as
\* their identity, where AllOutcomes gives every object the identity 0
FewOutcomes ==
  [credentials |-> {c \in Credentials : ~validate_token(c).raised},
   urls |-> GoodURLs, llm |-> LLMReplies,
   consistency |-> {c \in ConsistencyOutcomes : ~c.ran},
   validator |-> {ValidatorFailure},
   retrieval |-> {o \in RetrievalOutcomes : o.foreign = {} /\ (o.ok => o.n > TopK)},
   rerank |-> {TRUE},
   build_id |-> [r \in Reqs |-> r]]

\* every step but the clock's, for requests of at most maxq questions, of at
\* most maxc questions together when they overlap, with the outcomes out
Step(maxr, maxq, maxc, out) ==
  \/ \E r \in Slots(maxr), cred \in out.credentials, url \in out.urls, n \in 0..maxq :
       Receive(r, cred, url, n, maxc)
  \/ \E r \in Reqs, fetch_ok \in BOOLEAN, index_ok \in BOOLEAN :
       DocumentStage(r, out.build_id[r], fetch_ok, index_ok)
  \/ \E r \in Reqs, k \in 1..MaxQuestions, o \in out.retrieval :
       RetrieveReturn(r, k, o)
  \/ \E r \in Reqs, k \in 1..MaxQuestions, llm_ok \in out.rerank :
       RerankReturn(r, k, llm_ok)
  \/ \E r \in Reqs, k \in 1..MaxQuestions, p \in out.llm,
        c \in out.consistency, s \in out.llm :
       GenerateReturn(r, k, p, c, s)
  \/ \E r \in Reqs, k \in 1..MaxQuestions, v \in out.validator :
       ValidateReturn(r, k, v)
  \/ \E r \in Reqs : GatherReturn(r)
  \/ \E r \in Reqs : GatherRaise(r)
  \/ \E r \in Reqs : Close(r)

Next == Step(MaxRequests, MaxQuestions, MaxConcurrentQuestions, AllOutcomes)

\* the service with the clock standing still
Spec == Init /\ [][Next]_vars

\* the outcomes of authorised, well-formed requests whose calls fail or
\* succeed, without the consistency check of get_llm_answer and with the
\* chunks of the request's own document
LiveOutcomes ==
  [credentials |-> {c \in Credentials : ~validate_token(c).raised},
   urls |-> GoodURLs, llm |-> LLMOutcomes,
   consistency |-> {c \in ConsistencyOutcomes : ~c.ran},
   validator |-> ValidatorOutcomes,
   retrieval |-> {o \in RetrievalOutcomes : o.foreign = {}},
   rerank |-> BOOLEAN,
   build_id |-> [r \in Reqs |-> 0]]

NextLive == Step(MaxRequests, MaxQuestions, MaxConcurrentQuestions, LiveOutcomes)

\* the external calls of request r (download and indexing, retrieval, the
\* LLM calls) return or fail, and the event loop resumes the coroutine that
\* awaits them
ReturnOf(r) ==
  \/ \E fetch_ok \in BOOLEAN, index_ok \in BOOLEAN :
       DocumentStage(r, LiveOutcomes.build_id[r], fetch_ok, index_ok)
  \/ \E k \in 1..MaxQuestions, o \in LiveOutcomes.retrieval :
       RetrieveReturn(r, k, o)
  \/ \E k \in 1..MaxQuestions, llm_ok \in LiveOutcomes.rerank :
       RerankReturn(r, k, llm_ok)
  \/ \E k \in 1..MaxQuestions, p \in LiveOutcomes.llm,
        c \in LiveOutcomes.consistency, s \in LiveOutcomes.llm :
       GenerateReturn(r, k, p, c, s)
  \/ \E k \in 1..MaxQuestions, v \in LiveOutcomes.validator : ValidateReturn(r, k, v)
  \/ GatherReturn(r)
  \/ GatherRaise(r)

\* the service when every external call returns or fails in the end
SpecLive == Init /\ [][NextLive]_vars /\ \A r \in Reqs : WF_vars(ReturnOf(r))

NextTTL == Step(MaxRequests, MaxQuestionsTTL, MaxConcurrentQuestions, AllOutcomes) \/ Tick

\* the service with the clock running, for short requests
SpecTTL == Init /\ [][NextTTL]_vars

NextOverlap == Step(MaxOverlappingRequests, MaxQuestionsOverlap, MaxOverlappingQuestions, FewOutcomes)

\* the service with overlapping short requests
SpecOverlap == Init /\ [][NextOverlap]_vars

(* --------------------- get_llm_answer on its own ----------------------- *)
\* largest token count of one LLM call in the stand-alone calls
MaxTokens == 2
LLMContents == {"a1", "a2"}
LLMOutcomesWide ==
  {LLMFailure}
  \cup {[ok |-> TRUE, content |-> x, has_usage |-> TRUE, total_tokens |-> t] :
          x \in LLMContents, t \in 0..MaxTokens}
  \cup {[ok |-> TRUE, content |-> x, has_usage |-> FALSE, total_tokens |-> 0] :
          x \in LLMContents}
ConsistencyOutcomesWide ==
  { [ran |-> FALSE, ok |-> FALSE, corrected |-> "", total_tokens |-> 0],
    [ran |-> TRUE,  ok |-> FALSE, corrected |-> "", total_tokens |-> 0] }
  \cup {[ran |-> TRUE, ok |-> TRUE, corrected |-> x, total_tokens |-> t] :
          x \in {"", "a2"}, t \in 0..MaxTokens}

\* get_llm_answer(context, question) is called with LLM outcomes p, c, s
CallGetLLMAnswer(p, c, s) ==
  /\ call' = [fn |-> "get_llm_answer", p |-> p, c |-> c, s |-> s]
  /\ ret' = get_llm_answer(p, c, s)
  /\ UNCHANGED <<now, document_cache, chunk_cache, rpc, payload, tasks, results,
                 completed, response, hist, ready_since, cleared_since>>

NextLLM ==
  \E p \in LLMOutcomesWide, c \in ConsistencyOutcomesWide, s \in LLMOutcomesWide :
    CallGetLLMAnswer(p, c, s)

SpecLLM == Init /\ [][NextLLM]_vars

(* ------------------------ the reranker on its own ---------------------- *)
\* largest number of candidate chunks in the stand-alone calls of
\* rerank_chunks, and largest top_k
MaxChunks == 3

RECURSIVE Perms(_)
\* the lists without repetition of all elements of S
Perms(S) ==
  IF S = {} THEN {<<>>}
  ELSE UNION { {<<x>> \o q : q \in Perms(S \ {x})} : x \in S }

\* candidate lists: retrieval returns distinct chunks in any order
CandidateLists == UNION { Perms(S) : S \in SUBSET (1..MaxChunks) }

\* rerank_chunks(chunks, query, top_k) is called; its scoring calls give rel
\* and conf
CallRerankChunks(chunks, query, top_k, rel, conf) ==
  /\ call' = [fn |-> "rerank_chunks", chunks |-> chunks, query |-> query,
              top_k |-> top_k, rel |-> rel, conf |-> conf]
  /\ ret' = rerank_chunks(chunks, query, top_k, rel, conf)
  /\ UNCHANGED <<now, document_cache, chunk_cache, rpc, payload, tasks, results,
                 completed, response, hist, ready_since, cleared_since>>

\* numbers of chunks the retriever hands to stage 2: none, exactly top_k,
\* one more
StageLengths == {0, TopK, TopK + 1}

\* the confidence call in the stage calls: it fails, or rates every chunk
\* alike
UniformConfidence(n) ==
  ScoringFailures
  \cup { [kind |-> "list", numbers |-> TRUE, scores |-> [i \in 1..n |-> c]] :
           c \in ConfidenceValues }

\* stage 2 of get_answer_with_optimizations runs on the chunks 1..n
CallRerankStage(n, query, reranker_type, rel, conf) ==
  /\ call' = [fn |-> "rerank_stage", chunks |-> [i \in 1..n |-> i], query |-> query,
              top_k |-> TopK, reranker_type |-> reranker_type,
              rel |-> rel, conf |-> conf]
  /\ ret' = rerank_stage([i \in 1..n |-> i], query, reranker_type, rel, conf)
  /\ UNCHANGED <<now, document_cache, chunk_cache, rpc, payload, tasks, results,
                 completed, response, hist, ready_since, cleared_since>>

CallFinalChunks(n, query, mode, rel, conf) ==
  /\ call' = [fn |-> "final_chunks", chunks |-> [i \in 1..n |-> i], query |-> query,
              top_k |-> TopK, mode |-> mode, rel |-> rel, conf |-> conf]
  /\ ret' = final_chunks([i \in 1..n |-> i], query, mode, rel, conf)
  /\ UNCHANGED <<now, document_cache, chunk_cache, rpc, payload, tasks, results,
                 completed, response, hist, ready_since, cleared_since>>

\* one call in each behaviour
NextRerank ==
  /\ call = NoCall
  /\ \/ \E chunks \in CandidateLists, query \in Queries, top_k \in 1..MaxChunks :
          \E rel \in ScoringOutcomes(RelevanceValues, Len(chunks)),
             conf \in ScoringOutcomes(ConfidenceValues, Len(chunks)) :
            CallRerankChunks(chunks, query, top_k, rel, conf)
     \/ \E n \in StageLengths, query \in Queries, reranker_type \in RerankerTypes :
          \E rel \in ScoringOutcomes(RelevanceValues, n), conf \in UniformConfidence(n) :
            CallRerankStage(n, query, reranker_type, rel, conf)
     \/ \E n \in StageLengths, query \in Queries, mode \in Modes :
          \E rel \in ScoringOutcomes(RelevanceValues, n), conf \in UniformConfidence(n) :
            CallFinalChunks(n, query, mode, rel, conf)

SpecRerank == Init /\ [][NextRerank]_vars

(* --------------------- validate_answer on its own ---------------------- *)
\* the fixed answer of the agents and of generate_answer_with_chain_of_thought
NotAvailable == "The information is not available in the provided context."

\* every reply of the validator's LLM: each SUPPORTED: line, each CONFIDENCE:
\* text, parsable or not or absent, each CORRECTED_ANSWER: text
ValidatorRepliesWide ==
  [ok : {TRUE}, supported : SupportedLines,
   confidence : ConfidenceTexts \cup UnparsableConfidenceTexts \cup {""},
   corrected : {"", "c1", NotAvailable}]
ValidatorOutcomesWide == {ValidatorFailure} \cup ValidatorRepliesWide

\* the answers validate_answer is given
GeneratedAnswers == {"a1", "a2", NotAvailable}

CallValidateAnswer(v, answer) ==
  /\ call' = [fn |-> "validate_answer", v |-> v, answer |-> answer]
  /\ ret' = validate_answer(v, answer)
  /\ UNCHANGED <<now, document_cache, chunk_cache, rpc, payload, tasks, results,
                 completed, response, hist, ready_since, cleared_since>>

\* one call in each behaviour
NextValidate ==
  /\ call = NoCall
  /\ \E v \in ValidatorOutcomesWide, answer \in GeneratedAnswers :
       CallValidateAnswer(v, answer)

SpecValidate == Init /\ [][NextValidate]_vars

(* ------------------------ the chunker on its own ----------------------- *)
\* A document text is a sequence of sentences, joined by ". ". A sentence
\* is named by its first word, its length in characters and its case:
\*   "s30", "s700", "s780"      plain sentences of 30, 700 and 780 characters
\*   "Coverage200"              a sentence of 200 characters that begins with
\*                              "Coverage" and so matches a clause pattern
\*   "COVERAGE200"              the same sentence in upper case
Sentences == {"s30", "s700", "s780", "Coverage200", "COVERAGE200"}

\* len(sentence)
SentenceLen(u) ==
  CASE u = "s30" -> 30
    [] u = "s700" -> 700
    [] u = "s780" -> 780
    [] OTHER -> 200

\* sentence.lower()
SentenceLower(u) == IF u = "COVERAGE200" THEN "coverage200" ELSE
                    IF u = "Coverage200" THEN "coverage200" ELSE u

\* re.findall(pattern, text, re.IGNORECASE | re.DOTALL) finds the sentence
MatchesClausePattern(u) == u \in {"Coverage200", "COVERAGE200"}

\* the texts of at most MaxSentences sentences
MaxSentences == 3
Texts == UNION {[1..n -> Sentences] : n \in 1..MaxSentences}

\* a chunk is a run of sentences; chunk.lower()
ChunkLower(chunk) == [i \in 1..Len(chunk) |-> SentenceLower(chunk[i])]

\* len(chunk.strip()) and len(text): the sentences and the separators
\* between them
RECURSIVE SentencesLen(_)
SentencesLen(chunk) ==
  IF chunk = <<>> THEN 0 ELSE SentenceLen(Head(chunk)) + SentencesLen(Tail(chunk))
SeparatorLen == 2
ChunkLen(chunk) ==
  IF chunk = <<>> THEN 0 ELSE SentencesLen(chunk) + SeparatorLen * (Len(chunk) - 1)

\* get_text_chunks and its helpers
ShortTextLength == 1000
MinClauseLength == 50
MinChunkLength == 50
max_chunks == 80
chunk_size == 800
chunk_overlap == 150

\* extract_policy_clauses: every match of a clause pattern longer than
\* MinClauseLength, in the order of the text
extract_policy_clauses(text) ==
  LET clause(u) == MatchesClausePattern(u) /\ SentenceLen(u) > MinClauseLength
      matches == SelectSeq(text, clause)
  IN [i \in 1..Len(matches) |-> <<matches[i]>>]

\* RecursiveCharacterTextSplitter._merge_splits, the loop that drops the
\* head of current_doc: while total > chunk_overlap or (total + len > chunk_size
\* and total > 0)
RECURSIVE DropHead(_, _)
DropHead(current_doc, len) ==
  LET total == SentencesLen(current_doc) + SeparatorLen * Len(current_doc)
  IN IF current_doc # <<>> /\ (total > chunk_overlap \/ total + len > chunk_size)
     THEN DropHead(Tail(current_doc), len)
     ELSE current_doc

\* RecursiveCharacterTextSplitter._merge_splits: the splits are the sentences,
\* each with the separator in front of it (keep_separator); a split that
\* does not fit closes the current chunk, whose tail of at most chunk_overlap
\* characters opens the next
RECURSIVE merge_splits(_, _, _)
merge_splits(splits, current_doc, docs) ==
  IF splits = <<>>
  THEN IF current_doc # <<>> THEN Append(docs, current_doc) ELSE docs
  ELSE LET d == Head(splits)
           len == SentenceLen(d) + SeparatorLen
           total == SentencesLen(current_doc) + SeparatorLen * Len(current_doc)
       IN IF total + len > chunk_size /\ current_doc # <<>>
          THEN merge_splits(Tail(splits), Append(DropHead(current_doc, len), d),
                            Append(docs, current_doc))
          ELSE merge_splits(Tail(splits), Append(current_doc, d), docs)

\* text_splitter.split_text(text) for sentences shorter than chunk_size
split_text(text) == merge_splits(text, <<>>, <<>>)

\* process_remaining_text: the text without the extracted clauses, split,
\* keeping the chunks of at least MinChunkLength characters
process_remaining_text(text, clause_chunks) ==
  LET extracted == {clause_chunks[i][1] : i \in 1..Len(clause_chunks)}
      rest(u) == u \notin extracted
      long(chunk) == ChunkLen(chunk) >= MinChunkLength
  IN SelectSeq(split_text(SelectSeq(text, rest)), long)

\* hash(chunk.lower()) under the hash seed of the process: equal for equal
\* strings, and different for the different chunks of one document
hash(lowered, hashseed) == <<hashseed, lowered>>
HashSeeds == {0, 1}

\* faulty variant: every chunk is kept
unique_chunks_keepAll(chunks, hashseed, seen_chunks) == chunks

\* the loop of deduplicate_chunks over the chunks left, seen_chunks holding
\* the hashes of the chunks before them
RECURSIVE unique_chunks(_, _, _)
unique_chunks(chunks, hashseed, seen_chunks) ==
  IF chunks = <<>> THEN <<>>
  ELSE LET chunk_hash == hash(ChunkLower(Head(chunks)), hashseed)
       IN IF chunk_hash \in seen_chunks
          THEN unique_chunks(Tail(chunks), hashseed, seen_chunks)
          ELSE <<Head(chunks)>> \o
               unique_chunks(Tail(chunks), hashseed, seen_chunks \cup {chunk_hash})

\* faulty variant: seen_chunks outlives the call
deduplicate_chunks_sharedSeen(chunks, hashseed, earlier) ==
  unique_chunks(chunks, hashseed, earlier)

\* deduplicate_chunks: seen_chunks = set() at every call, whatever hashes
\* earlier calls of the process computed
deduplicate_chunks(chunks, hashseed, earlier) == unique_chunks(chunks, hashseed, {})

\* process_query, get_vector_store: the Documents of the chunks, and those
\* of them that are embedded, the first of each md5(page_content.lower())
indexed_chunks(text_chunks) == unique_chunks(text_chunks, 0, {})

\* chunks[:n]
Prefix(chunks, n) == SubSeq(chunks, 1, IF Len(chunks) < n THEN Len(chunks) ELSE n)

\* chunking.get_text_chunks of a text, in a process with the hash seed
\* hashseed that computed the hashes earlier in earlier calls: the chunk
\* list before deduplication and the list returned
chunking_get_text_chunks(text, hashseed, earlier) ==
  IF ChunkLen(text) < ShortTextLength
  THEN [all_chunks |-> <<text>>, chunks |-> <<text>>]
  ELSE LET clause_chunks == extract_policy_clauses(text)
           remaining_chunks == process_remaining_text(text, clause_chunks)
           all_chunks == clause_chunks \o remaining_chunks
           processed_chunks == deduplicate_chunks(all_chunks, hashseed, earlier)
       IN [all_chunks |-> all_chunks,
           chunks |-> Prefix(processed_chunks, max_chunks)]

\* the hashes a call computes
Hashes(chunks, hashseed) ==
  {hash(ChunkLower(chunks[i]), hashseed) : i \in 1..Len(chunks)}

\* the first call of a process, whose hash seed is drawn when it starts
FirstCallGetTextChunks(text, hashseed) ==
  LET result == chunking_get_text_chunks(text, hashseed, {})
  IN
  /\ call = NoCall
  /\ call' = [fn |-> "get_text_chunks", text |-> text, hashseed |-> hashseed,
              calls |-> 1, first_chunks |-> result.chunks]
  /\ ret' = [all_chunks |-> result.all_chunks, chunks |-> result.chunks,
             indexed |-> indexed_chunks(result.chunks)]
  /\ UNCHANGED <<now, document_cache, chunk_cache, rpc, payload, tasks, results,
                 completed, response, hist, ready_since, cleared_since>>

\* the process chunks another text, then the first text again
RepeatCallGetTextChunks(other) ==
  LET between == chunking_get_text_chunks(other, call.hashseed,
                                          Hashes(ret.all_chunks, call.hashseed))
      earlier == Hashes(ret.all_chunks, call.hashseed) \cup
                 Hashes(between.all_chunks, call.hashseed)
      result == chunking_get_text_chunks(call.text, call.hashseed, earlier)
  IN
  /\ call.fn = "get_text_chunks"
  /\ call.calls = 1
  /\ call' = [call EXCEPT !.calls = 3]
  /\ ret' = [all_chunks |-> result.all_chunks, chunks |-> result.chunks,
             indexed |-> indexed_chunks(result.chunks)]
  /\ UNCHANGED <<now, document_cache, chunk_cache, rpc, payload, tasks, results,
                 completed, response, hist, ready_since, cleared_since>>

NextChunk ==
  \/ \E text \in Texts, hashseed \in HashSeeds : FirstCallGetTextChunks(text, hashseed)
  \/ \E other \in Texts : RepeatCallGetTextChunks(other)

SpecChunk == Init /\ [][NextChunk]_vars

(* ------------------------------ properties ----------------------------- *)
Open(r) == rpc[r] # "free"
Responded(r) == rpc[r] = "responded"
Succeeded(r) == Responded(r) /\ response[r].status = HTTP_200_OK
ServerErrorResponse ==
  ErrorResponse(HTTP_500_INTERNAL_SERVER_ERROR, "An unexpected server error occurred.")

\* C1: a successful response has exactly one answer per question, and
\* answers[i] is the answer returned by the coroutine that was run for
\* questions[i], whatever the order in which the coroutines completed, in the
\* gather path and in the batched path.
C1_AnswersFollowQuestions ==
  \A r \in Reqs :
    Succeeded(r) =>
      /\ Len(response[r].answers) = Len(payload[r].questions)
      /\ Len(tasks[r]) = Len(payload[r].questions)
      /\ \A i \in 1..Len(payload[r].questions) :
           /\ tasks[r][i].question = payload[r].questions[i]
           /\ response[r].answers[i] = tasks[r][i].answer

\* C1 witness: a batched request succeeded, the two coroutines of its last
\* batch completed in reverse order and returned different answers
C1_Witness ==
  \E r \in Reqs :
    /\ Succeeded(r)
    /\ Len(payload[r].questions) = 4
    /\ completed[r] = <<4, 3>>
    /\ response[r].answers[3] # response[r].answers[4]

\* C2: a request that arrives after a request for the same URL completed its
\* document stage makes no Fetcher, Chunker or Indexer call and never waits
\* for a download: it goes on with the cached entry.
C2_CachedDocumentNotRebuilt ==
  \A r \in Reqs :
    (Open(r) /\ hist[r].ready_at_start) =>
      /\ ~hist[r].fetched /\ ~hist[r].chunked /\ ~hist[r].indexed
      /\ rpc[r] # "fetching"
      /\ get_cache_key(payload[r].documents) \in DOMAIN document_cache

\* C2 witness: such a request is running its question coroutines
C2_Witness ==
  \E r \in Reqs :
    /\ hist[r].ready_at_start
    /\ rpc[r] = "gathering"
    /\ ~hist[r].fetched

\* C3: a request that arrives when the TTL has elapsed since the document
\* stage of its URL, or after a cache clear that followed that stage,
\* invokes the Fetcher again, and the Indexer before its questions run.
C3_StaleEntryRebuilt ==
  \A r \in Reqs :
    (Open(r) /\ (hist[r].expired_at_start \/ hist[r].cleared_at_start)) =>
      /\ hist[r].fetched
      /\ (rpc[r] = "gathering" => hist[r].indexed)

\* C4: when the Fetcher or the Indexer raised (the Chunker catches its own
\* exceptions), the request is answered with the 500 error, none of its
\* question coroutines was created, the request wrote nothing to
\* document_cache, and document_cache has an entry for the URL only if some
\* other request completed the document stage for it.
C4_DocumentFailureLeavesUnseen ==
  \A r \in Reqs :
    hist[r].raised_by \in {"fetch", "index"} =>
      /\ Responded(r)
      /\ response[r] = ServerErrorResponse
      /\ tasks[r] = <<>>
      /\ ~hist[r].cache_written
      /\ (get_cache_key(payload[r].documents) \in DOMAIN document_cache
            => ready_since[payload[r].documents] >= 0)

\* C4 witness: the Indexer raised and the URL is still unseen
C4_Witness ==
  \E r \in Reqs :
    /\ hist[r].raised_by = "index"
    /\ get_cache_key(payload[r].documents) \notin DOMAIN document_cache

\* C5: when process_query raised, the response is the HTTP 500 error with
\* the fixed detail, without answers and without X-Token-Usage, also when
\* some question coroutines had already returned.
C5_FailureIsSingleError ==
  \A r \in Reqs :
    (Responded(r) /\ hist[r].raised_by # "") =>
      /\ response[r].status = HTTP_500_INTERNAL_SERVER_ERROR
      /\ response[r].detail = "An unexpected server error occurred."
      /\ ~response[r].has_answers
      /\ response[r].answers = <<>>
      /\ ~response[r].has_token_usage

\* C5 witness: the 500 error was sent although a coroutine had returned an
\* answer
C5_Witness ==
  \E r \in Reqs :
    /\ Responded(r)
    /\ response[r].status = HTTP_500_INTERNAL_SERVER_ERROR
    /\ \E k \in 1..Len(tasks[r]) : tasks[r][k].pc = "done"

\* C6: once the document stage has succeeded (or the cache was hit), no
\* failure inside a question's pipeline makes the request fail: every
\* response of such a request is a success with one answer per question.
C6_QuestionFailureContained ==
  \A r \in Reqs :
    (Responded(r) /\ hist[r].called_process_query
       /\ hist[r].raised_by \notin {"fetch", "index"}) =>
      /\ response[r].status = HTTP_200_OK
      /\ Len(response[r].answers) = Len(payload[r].questions)

\* C7 as stated: get_llm_answer never raises; when the primary call fails it
\* returns what get_simple_llm_answer's call gives, and when that fails too
\* the fixed answer with a zeroed usage record.
C7_FallbackZeroedUsage ==
  call.fn = "get_llm_answer" =>
    /\ ~ret.raised
    /\ (~call.p.ok /\ call.s.ok => ret.answer = call.s.content)
    /\ (~call.p.ok /\ ~call.s.ok =>
          ret.answer = SIMPLE_ERROR_ANSWER /\ ret.usage = ZeroUsage)

\* C7 amended: get_llm_answer never raises; when the primary call fails it
\* returns what get_simple_llm_answer's call gives, and when that fails too
\* the fixed answer with None in place of a usage record.
C7_FallbackNoneUsage ==
  call.fn = "get_llm_answer" =>
    /\ ~ret.raised
    /\ (~call.p.ok /\ call.s.ok => ret.answer = call.s.content)
    /\ (~call.p.ok /\ ~call.s.ok =>
          ret.answer = SIMPLE_ERROR_ANSWER /\ ret.usage = NoneUsage)

\* C7 witness: both LLM calls failed and the fixed answer was returned
C7_Witness ==
  /\ call.fn = "get_llm_answer"
  /\ ~call.p.ok /\ ~call.s.ok
  /\ ret.answer = SIMPLE_ERROR_ANSWER

RECURSIVE GeneratedTokens(_, _)
\* total_tokens of the usage get_llm_answer returned to coroutines 1..k of
\* ts, None counting for 0
GeneratedTokens(ts, k) ==
  IF k = 0 THEN 0
  ELSE (IF ts[k].usage.isNone THEN 0 ELSE ts[k].usage.total_tokens)
       + GeneratedTokens(ts, k - 1)

\* C8: on success the X-Token-Usage header is the decimal text of the sum,
\* over all questions, of the total_tokens get_llm_answer returned for the
\* question, a question without usage record counting for 0.
C8_TokenUsageIsSum ==
  \A r \in Reqs :
    Succeeded(r) =>
      /\ response[r].has_token_usage
      /\ Len(tasks[r]) = Len(payload[r].questions)
      /\ response[r].token_usage = str(GeneratedTokens(tasks[r], Len(tasks[r])))

\* C8 witness: a success whose sum has two digits and where one question's
\* generation failed
C8_Witness ==
  \E r \in Reqs :
    /\ Succeeded(r)
    /\ Len(response[r].token_usage) = 2
    /\ \E k \in 1..Len(tasks[r]) : tasks[r][k].usage.isNone
    /\ ~tasks[r][Len(tasks[r])].usage.isNone

\* C9: no pipeline stage runs for a request without questions, and no
\* success is sent with zero answers.
C9_EmptyQuestionsRejected ==
  \A r \in Reqs :
    /\ (hist[r].called_process_query => payload[r].questions # <<>>)
    /\ (Succeeded(r) => response[r].answers # <<>>)

ValidCredentials(cred) ==
  cred.present /\ cred.scheme = "Bearer" /\ cred.credentials = VALID_TOKEN

C11_AllPipelinesStarted ==
  \A r \in Reqs :
    rpc[r] = "gathering" => Len(tasks[r]) = Len(payload[r].questions)

\* C11 amended: with at most GatherLimit questions a coroutine has been
\* created for every question before the orchestrator waits; with more, the
\* questions run in batches of batch_size: when the orchestrator waits, the
\* coroutines of the current batch have all been created, those of the
\* earlier batches have all returned and those of later batches do not exist.
C11_BatchPipelinesStarted ==
  \A r \in Reqs :
    rpc[r] = "gathering" =>
      LET N == Len(payload[r].questions)
      IN IF N <= GatherLimit
         THEN Len(tasks[r]) = N /\ results[r] = <<>>
         ELSE /\ Len(results[r]) % batch_size = 0
              /\ Len(results[r]) < N
              /\ Len(tasks[r]) = Min(N, Len(results[r]) + batch_size)
              /\ \A k \in 1..Len(results[r]) : tasks[r][k].pc = "done"

\* C11 witness: the orchestrator waits for the second batch of a request of
\* four questions, both coroutines of the batch at their first await
C11_Witness ==
  \E r \in Reqs :
    /\ rpc[r] = "gathering"
    /\ Len(payload[r].questions) = 4
    /\ Len(results[r]) = 2
    /\ tasks[r][3].pc = "retrieving" /\ tasks[r][4].pc = "retrieving"

\* C12: when a question's coroutine failed, the response still has an answer
\* for every question of the request, and the answer of every sibling
\* coroutine that returned is delivered at its position.
C12_SiblingsDelivered ==
  \A r \in Reqs :
    (Responded(r) /\ \E k \in 1..Len(tasks[r]) : tasks[r][k].pc = "raised") =>
      /\ Len(tasks[r]) = Len(payload[r].questions)
      /\ response[r].has_answers
      /\ Len(response[r].answers) = Len(payload[r].questions)
      /\ \A j \in 1..Len(tasks[r]) :
           tasks[r][j].pc = "done" => response[r].answers[j] = tasks[r][j].answer

\* a question coroutine of request r is in flight
InFlight(r) == \E k \in 1..Len(tasks[r]) : Running(tasks[r][k])

BothBuilt(r1, r2) ==
  /\ r1 # r2
  /\ Responded(r1) /\ Responded(r2)
  /\ hist[r1].fetched /\ hist[r2].fetched
  /\ payload[r1].documents = payload[r2].documents

\* C14 as stated: after two overlapping requests built the same uncached
\* document, its entry is the (chunks, vector store) pair of one request's
\* build: chunks and vector store were built by the same request.
C14_EntryOfSingleBuild ==
  \A r1, r2 \in Reqs :
    (BothBuilt(r1, r2) /\ hist[r1].cache_written /\ hist[r2].cache_written) =>
      LET key == get_cache_key(payload[r1].documents)
      IN /\ key \in DOMAIN document_cache
         /\ document_cache[key].chunks.doc = payload[r1].documents
         /\ document_cache[key].vector_store.doc = payload[r1].documents
         /\ document_cache[key].chunks.built_by
              = document_cache[key].vector_store.built_by

\* C14 amended: after two overlapping requests ran the document stage for
\* the same uncached URL, document_cache has an entry for the URL if one of
\* the stages succeeded, and the entry is complete: the chunks of that
\* document as built by one request, and a vector store that was built from
\* chunks of the same contents, by that request or by an overlapping one
\* whose store get_vector_store found in chunk_cache.
C14_EntryCompleteAndConsistent ==
  \A r1, r2 \in Reqs :
    BothBuilt(r1, r2) =>
      LET key == get_cache_key(payload[r1].documents)
      IN /\ (hist[r1].cache_written \/ hist[r2].cache_written)
              => key \in DOMAIN document_cache
         /\ key \in DOMAIN document_cache =>
              /\ document_cache[key].chunks.doc = payload[r1].documents
              /\ document_cache[key].chunks.built_by \in Reqs
              /\ document_cache[key].vector_store.doc = payload[r1].documents
              /\ document_cache[key].vector_store.built_by \in Reqs

\* C14 witness: both requests wrote the entry and it holds the chunks of one
\* with the vector store of the other
C14_Witness ==
  \E r1, r2 \in Reqs :
    /\ BothBuilt(r1, r2)
    /\ hist[r1].cache_written /\ hist[r2].cache_written
    /\ document_cache[get_cache_key(payload[r1].documents)].chunks.built_by
         # document_cache[get_cache_key(payload[r1].documents)].vector_store.built_by

\* the elements of a list
Range(seq) == {seq[i] : i \in 1..Len(seq)}

\* the relevance call of the recorded rerank call gave a list of one number
\* for each chunk
RelevanceWellFormed ==
  /\ call.rel.kind = "list"
  /\ Len(call.rel.scores) = Len(call.chunks)
  /\ call.rel.numbers

\* a scoring call of the recorded rerank call raised: the relevance call, or
\* the confidence call that follows a well-formed relevance score set
BackendRaised ==
  \/ call.rel.kind = "raise"
  \/ RelevanceWellFormed /\ call.conf.kind = "raise"

\* C15: called with at least one chunk and top_k >= 1, rerank_chunks whose
\* scoring backend raises does not raise; it returns a non-empty list of at
\* most top_k chunks, all of them chunks it was given.
C15_RerankSurvivesBackendFailure ==
  (call.fn = "rerank_chunks" /\ call.chunks # <<>> /\ call.top_k >= 1
     /\ BackendRaised) =>
    /\ ~ret.raised
    /\ ret.chunks # <<>>
    /\ Len(ret.chunks) <= call.top_k
    /\ Range(ret.chunks) \subseteq Range(call.chunks)

\* C15 witness: the relevance call raised for three chunks and top_k = 2,
\* and two chunks came back
C15_Witness ==
  /\ call.fn = "rerank_chunks"
  /\ call.rel.kind = "raise"
  /\ Len(call.chunks) = 3 /\ call.top_k = 2
  /\ Len(ret.chunks) = 2

\* C16: when the relevance call fails or gives something that is not a list
\* of one score for each chunk, rerank_chunks returns what
\* rerank_chunks_simple returns for the same chunks, query and top_k.
C16_FallbackIsKeywordHeuristic ==
  (call.fn = "rerank_chunks"
     /\ (call.rel.kind # "list" \/ Len(call.rel.scores) # Len(call.chunks))) =>
    ret = rerank_chunks_simple(call.chunks, call.query, call.top_k)

\* the score set of the recorded stage call is well formed: the keyword
\* scores always are; the LLM's are when the relevance call gave one number
\* for each chunk, the confidence call returned JSON and, if that is a list
\* of the right length, its entries are numbers
WellFormedScoreSet ==
  \/ call.reranker_type = "simple"
  \/ /\ RelevanceWellFormed
     /\ call.conf.kind \notin {"raise", "bad_json"}
     /\ (call.conf.kind = "list" /\ Len(call.conf.scores) = Len(call.chunks)
           => call.conf.numbers)

\* the score the recorded stage call gives to its i-th candidate
StageScore(i) ==
  IF call.reranker_type = "simple" THEN simple_score(call.chunks[i], call.query)
  ELSE final_score(call.rel.scores[i],
                   IF call.conf.kind = "list" /\ Len(call.conf.scores) = Len(call.chunks)
                   THEN call.conf.scores[i] ELSE DefaultConfidence)

\* the place of chunk c among the candidates of the recorded call
Place(c) == CHOOSE i \in 1..Len(call.chunks) : call.chunks[i] = c

C18_ValidatorFailureKeepsGenerated ==
  \A r \in Reqs : \A k \in 1..Len(tasks[r]) :
    (tasks[r][k].pc = "done" /\ tasks[r][k].validator_failed) =>
      /\ validate_answer(ValidatorFailure, tasks[r][k].generated)
           = [is_valid |-> TRUE, answer |-> tasks[r][k].generated]
      /\ tasks[r][k].answer = tasks[r][k].generated
      /\ Succeeded(r) => response[r].answers[k] = tasks[r][k].generated

\* a successful response whose question went through a failed validator call
C18_Witness ==
  \E r \in Reqs : \E k \in 1..Len(tasks[r]) :
    /\ Succeeded(r)
    /\ tasks[r][k].validator_failed
    /\ tasks[r][k].generated # ""
    /\ response[r].answers[k] = tasks[r][k].generated
(* ------------------- the validator rejects an answer ------------------- *)
\* a call of validate_answer whose LLM reply does not say YES on its
\* SUPPORTED: line
JudgedNotSupported ==
  /\ call.fn = "validate_answer"
  /\ call.v.ok
  /\ ~ContainsYES(call.v.supported)

C20_EmptyContextGivesFixedAnswer ==
  [][\A r \in Reqs : \A k \in 1..Len(tasks[r]) :
       (/\ tasks[r][k].pc = "generating"
        /\ tasks[r][k].nchunks = 0
        /\ k <= Len(tasks'[r])
        /\ tasks'[r][k].pc \in {"validating", "done"})
       => tasks'[r][k].answer = NotAvailable]_vars
C22_ChunksCoverText ==
  call.fn = "get_text_chunks" =>
    \A i \in 1..Len(call.text) :
      \E j \in 1..Len(ret.chunks) : \E k \in 1..Len(ret.chunks[j]) :
        SentenceLower(ret.chunks[j][k]) = SentenceLower(call.text[i])

\* the places of chunks whose lower-cased content no earlier chunk has
FirstOccurrences(chunks) ==
  {i \in 1..Len(chunks) :
     \A j \in 1..(i - 1) : ChunkLower(chunks[j]) # ChunkLower(chunks[i])}

\* kept is chunks without the repetitions: the first chunk of each
\* lower-cased content, in the order of chunks
IsDeduplicationOf(kept, chunks) ==
  /\ Len(kept) = Cardinality(FirstOccurrences(chunks))
  /\ \A k \in 1..Len(kept) :
       \E i \in FirstOccurrences(chunks) :
         /\ kept[k] = chunks[i]
         /\ Cardinality({j \in FirstOccurrences(chunks) : j < i}) = k - 1

StageSteps ==
  { <<"retrieving", "reranking">>, <<"retrieving", "generating">>,
    <<"reranking", "generating">>,
    <<"generating", "validating">>, <<"generating", "done">>,
    <<"validating", "done">>,
    <<"retrieving", "raised">>, <<"generating", "raised">> }

\* C24: the stages of a question run in the order retriever, reranker,
\* answer generator, validator, each starting when the one before it has
\* returned, and the answer generator is called with the chunks stage 2
\* returned for the chunks retrieved for that question.
C24_StagesInOrder ==
  [][\A r \in Reqs : \A k \in 1..Len(tasks[r]) :
       (k <= Len(tasks'[r]) /\ tasks'[r][k].pc # tasks[r][k].pc) =>
         /\ <<tasks[r][k].pc, tasks'[r][k].pc>> \in StageSteps
         /\ tasks'[r][k].question = tasks[r][k].question
         /\ (tasks[r][k].pc = "reranking" =>
               \E llm_ok \in BOOLEAN :
                 tasks'[r][k].chunks =
                   rerank_stage(tasks[r][k].chunks, tasks[r][k].question, "llm",
                                PipelineRelevance(Len(tasks[r][k].chunks), llm_ok),
                                PipelineConfidence).chunks)
         /\ (tasks[r][k].pc = "retrieving" /\ tasks'[r][k].pc = "generating" =>
               \E n \in RetrievedCounts :
                 /\ n <= TopK
                 /\ tasks'[r][k].chunks =
                      rerank_stage(Retrieved(n), tasks[r][k].question, "llm",
                                   PipelineRelevance(n, TRUE),
                                   PipelineConfidence).chunks)]_vars

\* the answer generator of a question runs on reranked chunks: the chunk
\* retrieved last comes first
C24_Witness ==
  \E r \in Reqs : \E k \in 1..Len(tasks[r]) :
    /\ tasks[r][k].pc = "generating"
    /\ Len(tasks[r][k].chunks) = TopK
    /\ tasks[r][k].chunks[1] = TopK + 1
(* -------------------- the documents share one index -------------------- *)
\* C25: the context of a question holds chunks of the request's document
\* only, whatever documents were indexed before.
C25_ContextOfOwnDocument ==
  \A r \in Reqs : \A k \in 1..Len(tasks[r]) :
    tasks[r][k].pc = "generating" =>
      \A i \in 1..Len(tasks[r][k].chunks) :
        tasks[r][k].chunks[i] \notin tasks[r][k].foreign
(* ------------------------------- batches ------------------------------- *)
\* the batch of the k-th question, counted from 0
BatchOf(k) == (k - 1) \div batch_size

\* C26: the questions of a request of more than GatherLimit questions are
\* processed in consecutive batches of batch_size in input order; the
\* pipelines of a batch are created when every pipeline of the batch before
\* has completed, so at most batch_size pipelines of the request are in
\* flight.
C26_BatchesOfTwoInOrder ==
  \A r \in Reqs :
    Len(payload[r].questions) > GatherLimit =>
      /\ Len(tasks[r]) <= Len(payload[r].questions)
      /\ \A k \in 1..Len(tasks[r]) :
           /\ tasks[r][k].question = payload[r].questions[k]
           /\ \A j \in 1..Len(tasks[r]) :
                BatchOf(j) < BatchOf(k) => tasks[r][j].pc = "done"
           /\ \A j \in 1..Len(payload[r].questions) :
                BatchOf(j) = BatchOf(k) => j <= Len(tasks[r])
      /\ Cardinality({k \in 1..Len(tasks[r]) : Running(tasks[r][k])}) <= batch_size

\* the second batch of a request of four questions is in flight
C26_Witness ==
  \E r \in Reqs :
    /\ Len(payload[r].questions) = 4
    /\ Len(tasks[r]) = 4
    /\ Running(tasks[r][3])
    /\ Running(tasks[r][4])
    /\ tasks[r][1].pc = "done"
    /\ tasks[r][2].pc = "done"
(* ------------------------- selective validation ------------------------ *)
\* C27: validate_answer is called for a question only with use_validation
\* and in a request of at most ValidationLimit questions; in a longer
\* request no question is validated and every answer is the one
\* get_llm_answer generated.
C27_ValidationOnlyForShortRequests ==
  \A r \in Reqs : \A k \in 1..Len(tasks[r]) :
    /\ tasks[r][k].pc = "validating" =>
         use_validation /\ Len(payload[r].questions) <= ValidationLimit
    /\ Len(payload[r].questions) > ValidationLimit =>
         /\ ~tasks[r][k].validator_failed
         /\ tasks[r][k].pc = "done" => tasks[r][k].answer = tasks[r][k].generated
         /\ Succeeded(r) => response[r].answers[k] = tasks[r][k].generated

\* a request of three questions answered with the generated answers
C27_Witness ==
  \E r \in Reqs :
    /\ Succeeded(r)
    /\ Len(payload[r].questions) = ValidationLimit + 1
    /\ \A k \in 1..Len(tasks[r]) :
         /\ tasks[r][k].generated # ""
         /\ response[r].answers[k] = tasks[r][k].generated
(* ------------------------ the size of the context ---------------------- *)
\* C28: in every mode of process_query and whatever the scoring calls of
\* the reranker return, the answer generator is given at most TopK chunks,
\* all of them retrieved chunks, and a reranker is invoked only for more than
\* TopK retrieved chunks.
C28_AtMostTopKChunks ==
  call.fn = "final_chunks" =>
    /\ Len(ret.chunks) <= TopK
    /\ \A i \in 1..Len(ret.chunks) : ret.chunks[i] \in 1..Len(call.chunks)
    /\ ret.invoked => Len(call.chunks) > TopK

\* nine chunks retrieved without reranker: the first eight are kept
C28_Witness ==
  /\ call.fn = "final_chunks"
  /\ ~call.mode.use_reranker
  /\ Len(call.chunks) = TopK + 1
  /\ ~ret.invoked
  /\ Len(ret.chunks) = TopK
(* ----------------------- the validator's threshold --------------------- *)
\* C29: when the validator's LLM replies and the confidence text of the
\* reply is a number or is missing, validate_answer returns is_valid = True
\* exactly when the SUPPORTED: line contains YES and the confidence, 0.5
\* when missing, is at least 0.6; a valid answer is returned as it was, and
\* otherwise the final answer is the corrected answer of the reply, or the
\* original answer when the reply has none.
C29_ValidIffSupportedAndConfident ==
  (/\ call.fn = "validate_answer"
   /\ call.v.ok
   /\ call.v.confidence \in {"", "0.3", "0.5", "0.6", "0.9"}) =>
    /\ ret.is_valid = (/\ call.v.supported \in {"SUPPORTED: YES", "SUPPORTED: yes"}
                       /\ call.v.confidence \in {"0.6", "0.9"})
    /\ ret.is_valid => ret.answer = call.answer
    /\ ~ret.is_valid =>
         ret.answer = IF call.v.corrected # "" THEN call.v.corrected ELSE call.answer

\* SUPPORTED: YES without CONFIDENCE: line is not valid, and the original
\* answer comes back
C29_Witness ==
  /\ call.fn = "validate_answer"
  /\ call.v.ok
  /\ call.v.supported = "SUPPORTED: YES"
  /\ call.v.confidence = ""
  /\ call.v.corrected = ""
  /\ call.answer = "a2"
  /\ ret = [is_valid |-> FALSE, answer |-> "a2"]
(* ----------------------------- termination ----------------------------- *)
\* the request in slot r was accepted and process_query runs
Accepted(r) == rpc[r] \in {"fetching", "gathering"}

\* the request in slot r has its outcome: one answer per question, or the
\* HTTP 500 error
Terminated(r) ==
  /\ rpc[r] = "responded"
  /\ \/ /\ response[r].status = HTTP_200_OK
        /\ response[r].has_answers
        /\ Len(response[r].answers) = Len(payload[r].questions)
     \/ response[r] = ServerErrorResponse

\* C30: when every external call returns or fails in the end, every
\* accepted request ends with one outcome, a response with one answer for
\* each question or the HTTP 500 error, and the outcome it has is never
\* replaced by another.
C30_AcceptedRequestsTerminate ==
  /\ \A r \in Reqs : Accepted(r) ~> Terminated(r)
  /\ [][\A r \in Reqs :
          (rpc[r] = "responded" /\ rpc'[r] = "responded") =>
            response'[r] = response[r]]_vars

\* a request of four questions ended with four answers
C30_Witness ==
  \E r \in Reqs :
    /\ Terminated(r)
    /\ Len(payload[r].questions) = 4
    /\ Len(response[r].answers) = 4
====
